---- MODULE Spec2Model ----
(***************************************************************************)
(* A model of royw/appimage-configs: the config validator                  *)
(* (scripts/validate_configs.py) and the index generator                   *)
(* (scripts/update_index.py).                                              *)
(*                                                                         *)
(* Text is modelled as sequences of one-character strings, JSON values as  *)
(* tagged records, SHA-256 as an injective map.                            *)
(***************************************************************************)
EXTENDS Integers, Sequences, FiniteSets, TLC

VARIABLES
    hashInA,    \* compute_repo_hash: a list of hash strings
    hashInB,    \* compute_repo_hash: a second list of hash strings
    hashOut     \* <<>> or the two results, for hashInA and for hashInB

hashVars == <<hashInA, hashInB, hashOut>>

VARIABLES
    docName,    \* the name of the config file the two functions are given
    docContent, \* its content
    docSchema,  \* whether the validator was given a schema
    valIn,      \* the validator before the call of validate_file
    valOut,     \* "none" or what validate_file returned
    nameOut     \* "none" or what extract_app_name returned

docVars == <<docName, docContent, docSchema, valIn, valOut, nameOut>>

VARIABLES
    configs,    \* the configs directory: whether it exists, and its *.json files
    fs,         \* the repository root: index.json and new_index.json
    pc,         \* where each run of update_index is
    idx,        \* the index build_index returned to each run
    pos,        \* how many chunks each run has written to its open file
    fd,         \* which name the file each run has open goes by now
    retval,     \* what the call of each run returned
    lastOk      \* the last run that returned True: the directory it saw, its index

runVars == <<configs, fs, pc, idx, pos, fd, retval, lastOk>>

vars == <<hashVars, docVars, runVars>>

(***************************************************************************)
(* Text: Python str as a sequence of characters.                           *)
(***************************************************************************)

\* The characters the model uses, in increasing code point order (Python
\* compares and sorts str by code point).
Alphabet ==
    << "\n", " ", "(", ")", "-", ".", "/", "0", "1", "2", "3", "4", "5", "6",
       "7", "8", "9", ":", "A", "B", "C", "D", "E", "F", "T", "Z", "[", "]",
       "_", "a", "b", "c", "d", "e", "f", "g", "h", "i", "j", "k", "l", "m",
       "n", "o", "p", "q", "r", "s", "t", "u", "v", "w", "x", "y", "z", "~" >>

Ord(c) == CHOOSE i \in 1..Len(Alphabet) : Alphabet[i] = c

\* The separator compute_repo_hash joins with.
NL == "\n"

\* s < t for two str, as Python orders them: by the first differing
\* character, a proper prefix first.
RECURSIVE StrLess(_, _)
StrLess(s, t) ==
    IF t = <<>> THEN FALSE
    ELSE IF s = <<>> THEN TRUE
    ELSE IF Head(s) = Head(t) THEN StrLess(Tail(s), Tail(t))
    ELSE Ord(Head(s)) < Ord(Head(t))

\* Insertion of x into a sorted list, after the elements equal to it.
RECURSIVE InsertSorted(_, _)
InsertSorted(x, l) ==
    IF l = <<>> THEN <<x>>
    ELSE IF StrLess(x, Head(l)) THEN <<x>> \o l
    ELSE <<Head(l)>> \o InsertSorted(x, Tail(l))

\* sorted(list of str)
RECURSIVE Sorted(_)
Sorted(l) ==
    IF l = <<>> THEN <<>>
    ELSE InsertSorted(l[Len(l)], Sorted(SubSeq(l, 1, Len(l) - 1)))

\* sep.join(list of str)
RECURSIVE Join(_, _)
Join(sep, l) ==
    IF l = <<>> THEN <<>>
    ELSE IF Len(l) = 1 THEN l[1]
    ELSE l[1] \o <<sep>> \o Join(sep, Tail(l))

(***************************************************************************)
(* Hasher.                                                                 *)
(***************************************************************************)

\* hashlib.sha256(data).hexdigest(), treated as injective: the digest is
\* kept as the data it digests.
Sha256Hex(data) == [sha256 |-> data]

\* A plausible slip: the hashes joined in the order given.
ComputeRepoHashUnsorted(config_hashes) ==
    [prefix |-> "sha256:", hex |-> Sha256Hex(Join(NL, config_hashes))]

\* A plausible slip: the hashes deduplicated before they are sorted.
RECURSIVE Dedup(_)
Dedup(l) ==
    IF l = <<>> THEN <<>>
    ELSE LET rest == Dedup(SubSeq(l, 1, Len(l) - 1))
         IN IF \E i \in 1..Len(rest) : rest[i] = l[Len(l)]
            THEN rest ELSE Append(rest, l[Len(l)])

ComputeRepoHashOfSet(config_hashes) ==
    [prefix |-> "sha256:", hex |-> Sha256Hex(Join(NL, Sorted(Dedup(config_hashes))))]

\* compute_repo_hash: "sha256:" + the digest of the sorted hashes joined by
\* newlines.
ComputeRepoHash(config_hashes) ==
    [prefix |-> "sha256:", hex |-> Sha256Hex(Join(NL, Sorted(config_hashes)))]

(***************************************************************************)
(* JSON values, as json.load returns them: a tagged record for each Python *)
(* type.  A dict maps its keys to values; a str is a sequence of           *)
(* characters.                                                             *)
(***************************************************************************)

JNull == [k |-> "null"]
JBool(b) == [k |-> "bool", v |-> b]
JInt(n) == [k |-> "int", v |-> n]
JFloat(n) == [k |-> "float", v |-> n]
JStr(s) == [k |-> "str", v |-> s]
JList(l) == [k |-> "list", v |-> l]
JDict(d) == [k |-> "dict", v |-> d]

\* The empty mapping.
NoKeys == [key \in {} |-> JNull]

\* bool(x): Python's truth value of a JSON value.
Truthy(x) ==
    CASE x.k = "null" -> FALSE
      [] x.k = "bool" -> x.v
      [] x.k \in {"int", "float"} -> x.v # 0
      [] x.k \in {"str", "list"} -> Len(x.v) > 0
      [] x.k = "dict" -> DOMAIN x.v # {}

IsStr(x) == x.k = "str"

\* isinstance(x, int): bool is a subclass of int.
IsInt(x) == x.k \in {"int", "bool"}

\* d.get(key) on a dict value.
Get(d, key) == IF key \in DOMAIN d.v THEN d.v[key] ELSE JNull

\* d.get(key, default)
GetOr(d, key, default) == IF key \in DOMAIN d.v THEN d.v[key] ELSE default

\* s.startswith(prefix)
StartsWith(s, prefix) ==
    Len(s) >= Len(prefix) /\ SubSeq(s, 1, Len(prefix)) = prefix

\* sub in s, for two str
Contains(s, sub) ==
    \E i \in 0..(Len(s) - Len(sub)) : SubSeq(s, i + 1, i + Len(sub)) = sub

UpperCase == <<"A", "B", "C", "D", "E", "F", "M", "O", "T", "Z">>
LowerCase == <<"a", "b", "c", "d", "e", "f", "m", "o", "t", "z">>

\* str.lower()
Lower(s) ==
    [i \in 1..Len(s) |->
        IF \E j \in 1..Len(UpperCase) : UpperCase[j] = s[i]
        THEN LowerCase[CHOOSE j \in 1..Len(UpperCase) : UpperCase[j] = s[i]]
        ELSE s[i]]

Letters ==
    {"A", "B", "C", "D", "E", "F", "M", "O", "T", "Z",
     "a", "b", "c", "d", "e", "f", "g", "h", "i", "j", "k", "l", "m",
     "n", "o", "p", "q", "r", "s", "t", "u", "v", "w", "x", "y", "z"}
Digits == {"0", "1", "2", "3", "4", "5", "6", "7", "8", "9"}

\* Literal strings of the source.
S_applications == <<"a", "p", "p", "l", "i", "c", "a", "t", "i", "o", "n", "s">>
S_http == <<"h", "t", "t", "p", ":", "/", "/">>
S_https == <<"h", "t", "t", "p", "s", ":", "/", "/">>
S_json == <<".", "j", "s", "o", "n">>
S_repo_hash == <<"r", "e", "p", "o", "_", "h", "a", "s", "h">>
S_generated_at == <<"g", "e", "n", "e", "r", "a", "t", "e", "d", "_", "a", "t">>
S_configs == <<"c", "o", "n", "f", "i", "g", "s", "/">>

(***************************************************************************)
(* Rule validator (ConfigValidator).  The validator's lists are threaded   *)
(* through as a record st = [errors, warnings, exc]: exc is "" or the name *)
(* of the exception that is propagating, after which nothing more runs.    *)
(***************************************************************************)

\* ValidationError(file, message, field); a field path is a tuple such as
\* <<"applications", 0, "pattern">>, and <<>> stands for None.
ValidationError(file, message, field) ==
    [file |-> file, message |-> message, field |-> field]

\* ConfigValidator.__init__
NewValidator == [errors |-> <<>>, warnings |-> <<>>, exc |-> ""]

AddError(st, file, message, field) ==
    [st EXCEPT !.errors = Append(@, ValidationError(file, message, field))]

AddWarning(st, file, message, field) ==
    [st EXCEPT !.warnings = Append(@, ValidationError(file, message, field))]

Raise(st, exception) == [st EXCEPT !.exc = exception]

\* f"applications[{index}].{field}"
FieldPath(index, field) == <<"applications", index, field>>

\* REQUIRED_APP_FIELDS, in one iteration order of the set (the order only
\* decides the order of the errors in the list).
REQUIRED_APP_FIELDS == <<"name", "url", "download_dir", "pattern">>

\* PATH_FIELDS, in one iteration order of the set.
PATH_FIELDS == <<"download_dir", "symlink_path">>

VALID_SOURCE_TYPES ==
    { <<"g", "i", "t", "h", "u", "b">>,
      <<"g", "i", "t", "l", "a", "b">>,
      <<"s", "o", "u", "r", "c", "e", "f", "o", "r", "g", "e">>,
      <<"d", "i", "r", "e", "c", "t">>,
      <<"d", "i", "r", "e", "c", "t", "_", "d", "o", "w", "n", "l", "o", "a", "d">>,
      <<"d", "y", "n", "a", "m", "i", "c", "_", "d", "o", "w", "n", "l", "o", "a", "d">> }

valid_algorithms ==
    { <<"s", "h", "a", "2", "5", "6">>,
      <<"s", "h", "a", "5", "1", "2">>,
      <<"m", "d", "5">> }

\* One required field of _validate_app's loop.
CheckRequired(st, filename, app, index, field) ==
    IF field \notin DOMAIN app.v
    THEN AddError(st, filename, "Missing required field", FieldPath(index, field))
    ELSE IF app.v[field] = JNull \/ app.v[field] = JStr(<<>>)
    THEN AddError(st, filename, "Field cannot be empty", FieldPath(index, field))
    ELSE st

RECURSIVE CheckRequiredFrom(_, _, _, _, _)
CheckRequiredFrom(st, filename, app, index, n) ==
    IF n > Len(REQUIRED_APP_FIELDS) THEN st
    ELSE CheckRequiredFrom(
            CheckRequired(st, filename, app, index, REQUIRED_APP_FIELDS[n]),
            filename, app, index, n + 1)

\* re.match(r"^[A-Za-z0-9_-]+$", name): $ also matches before a final newline.
NameCharsOk(s) ==
    /\ Len(s) > 0
    /\ \A i \in 1..Len(s) : s[i] \in Letters \cup Digits \cup {"_", "-"}

NameMatches(name) ==
    \/ NameCharsOk(name)
    \/ Len(name) > 1 /\ name[Len(name)] = NL
         /\ NameCharsOk(SubSeq(name, 1, Len(name) - 1))

_validate_name(st, filename, app, index) ==
    LET name == Get(app, "name") IN
    IF Truthy(name) /\ ~IsStr(name)
    THEN AddError(st, filename, "Must be a string", FieldPath(index, "name"))
    ELSE IF Truthy(name) /\ ~NameMatches(name.v)
    THEN AddWarning(st, filename, "Name contains special characters",
                    FieldPath(index, "name"))
    ELSE st

_validate_url(st, filename, app, index) ==
    LET url == Get(app, "url") IN
    IF Truthy(url) /\ ~IsStr(url)
    THEN AddError(st, filename, "Must be a string", FieldPath(index, "url"))
    ELSE IF Truthy(url) /\ ~(StartsWith(url.v, S_http) \/ StartsWith(url.v, S_https))
    THEN AddError(st, filename, "URL must start with http:// or https://",
                  FieldPath(index, "url"))
    ELSE st

\* re.compile(pattern) raising re.error, for the syntax errors the model
\* knows: a repetition with nothing to repeat at the start, an unterminated
\* character set, an unbalanced parenthesis.  depth counts the open groups,
\* inset says whether the scan is inside [...].
RECURSIVE ReScanFails(_, _, _)
ReScanFails(p, depth, inset) ==
    IF p = <<>> THEN inset \/ depth > 0
    ELSE IF inset
         THEN ReScanFails(Tail(p), depth, Head(p) # "]")
    ELSE IF Head(p) = "[" THEN ReScanFails(Tail(p), depth, TRUE)
    ELSE IF Head(p) = "(" THEN ReScanFails(Tail(p), depth + 1, FALSE)
    ELSE IF Head(p) = ")"
         THEN depth = 0 \/ ReScanFails(Tail(p), depth - 1, FALSE)
    ELSE ReScanFails(Tail(p), depth, FALSE)

ReCompileFails(p) ==
    \/ Head(p) \in {"*", "+", "?"}
    \/ ReScanFails(p, 0, FALSE)

_validate_pattern(st, filename, app, index) ==
    LET pattern == Get(app, "pattern") IN
    IF Truthy(pattern) /\ ~IsStr(pattern)
    THEN AddError(st, filename, "Must be a string", FieldPath(index, "pattern"))
    ELSE IF Truthy(pattern) /\ ReCompileFails(pattern.v)
    THEN AddError(st, filename, "Invalid regex", FieldPath(index, "pattern"))
    ELSE st

\* One field of _validate_paths' loop.
CheckPath(st, filename, app, index, field) ==
    LET value == Get(app, field) IN
    IF value = JNull THEN st
    ELSE IF ~IsStr(value)
    THEN AddError(st, filename, "Must be a string", FieldPath(index, field))
    ELSE IF StartsWith(value.v, <<"/">>)
    THEN AddError(st, filename, "Path must be relative, not absolute",
                  FieldPath(index, field))
    ELSE IF StartsWith(value.v, <<"~">>)
    THEN AddError(st, filename, "Path must be relative, not use ~",
                  FieldPath(index, field))
    ELSE IF Len(value.v) >= 2 /\ value.v[1] \in Letters /\ value.v[2] = ":"
    THEN AddError(st, filename, "Path must be relative, not absolute",
                  FieldPath(index, field))
    ELSE st

_validate_paths(st, filename, app, index) ==
    CheckPath(CheckPath(st, filename, app, index, PATH_FIELDS[1]),
              filename, app, index, PATH_FIELDS[2])

_validate_source_type(st, filename, app, index) ==
    LET source_type == Get(app, "source_type") IN
    IF source_type = JNull THEN st
    ELSE IF ~IsStr(source_type)
    THEN AddError(st, filename, "Must be a string", FieldPath(index, "source_type"))
    ELSE IF source_type.v \notin VALID_SOURCE_TYPES
    THEN AddError(st, filename, "Invalid source_type", FieldPath(index, "source_type"))
    ELSE st

\* checksum["algorithm"] not in valid_algorithms hashes the value: a list or
\* a dict is unhashable and raises TypeError.
ChecksumAlgorithm(st, filename, checksum, index) ==
    IF "algorithm" \notin DOMAIN checksum.v THEN st
    ELSE LET algorithm == checksum.v["algorithm"] IN
         IF algorithm.k \in {"list", "dict"} THEN Raise(st, "TypeError")
         ELSE IF ~(IsStr(algorithm) /\ algorithm.v \in valid_algorithms)
         THEN AddError(st, filename, "Invalid algorithm",
                       <<"applications", index, "checksum", "algorithm">>)
         ELSE st

_validate_checksum(st, filename, app, index) ==
    LET checksum == Get(app, "checksum") IN
    IF checksum = JNull THEN st
    ELSE IF checksum.k # "dict"
    THEN AddError(st, filename, "Must be an object", FieldPath(index, "checksum"))
    ELSE ChecksumAlgorithm(
            IF "enabled" \in DOMAIN checksum.v /\ checksum.v["enabled"].k # "bool"
            THEN AddError(st, filename, "Must be a boolean",
                          <<"applications", index, "checksum", "enabled">>)
            ELSE st,
            filename, checksum, index)

\* OPTIONAL_APP_FIELDS without checksum (handled separately), in the dict's
\* order, each with the kinds isinstance accepts.
OPTIONAL_APP_FIELDS ==
    << [field |-> "source_type", kinds |-> {"str"}],
       [field |-> "version_pattern", kinds |-> {"str", "null"}],
       [field |-> "basename", kinds |-> {"str", "null"}],
       [field |-> "enabled", kinds |-> {"bool"}],
       [field |-> "prerelease", kinds |-> {"bool"}],
       [field |-> "rotation_enabled", kinds |-> {"bool"}],
       [field |-> "symlink_path", kinds |-> {"str", "null"}],
       [field |-> "retain_count", kinds |-> {"int", "bool"}] >>

RECURSIVE OptionalTypesFrom(_, _, _, _, _)
OptionalTypesFrom(st, filename, app, index, n) ==
    IF n > Len(OPTIONAL_APP_FIELDS) THEN st
    ELSE LET field == OPTIONAL_APP_FIELDS[n].field
             next ==
                IF field \in DOMAIN app.v
                   /\ app.v[field].k \notin OPTIONAL_APP_FIELDS[n].kinds
                THEN AddError(st, filename, "Expected type", FieldPath(index, field))
                ELSE st
         IN OptionalTypesFrom(next, filename, app, index, n + 1)

_validate_optional_types(st, filename, app, index) ==
    OptionalTypesFrom(st, filename, app, index, 1)

\* Line 180, unless an exception is propagating.
OptionalTypesUnlessRaised(st, filename, app, index) ==
    IF st.exc # "" THEN st
    ELSE _validate_optional_types(st, filename, app, index)

\* The field validators of _validate_app, in call order; a raised exception
\* skips the rest.
FieldChecks(st, filename, app, index) ==
    LET s1 == _validate_name(st, filename, app, index)
        s2 == _validate_url(s1, filename, app, index)
        s3 == _validate_pattern(s2, filename, app, index)
        s4 == _validate_paths(s3, filename, app, index)
        s5 == _validate_source_type(s4, filename, app, index)
    IN CHOOSE out \in
          { OptionalTypesUnlessRaised(s6, filename, app, index) :
              s6 \in {_validate_checksum(s5, filename, app, index)} } : TRUE

_validate_app(st, filename, app, index) ==
    IF app.k # "dict"
    THEN AddError(st, filename, "must be an object", <<>>)
    ELSE FieldChecks(CheckRequiredFrom(st, filename, app, index, 1),
                     filename, app, index)

(***************************************************************************)
(* validate_file.  A file's content is a record                            *)
(*   [sha |-> the hex SHA-256 digest of its bytes,                         *)
(*    text |-> "json" | "garbage" | "unreadable",                          *)
(*    doc |-> the JSON value json.load returns,                            *)
(*    viol |-> the number of rules of the schema the document violates]:   *)
(* "garbage" makes json.load raise JSONDecodeError, "unreadable" makes     *)
(* open raise OSError.                                                     *)
(***************************************************************************)

\* The result of a call: the validator afterwards, and ret = "True", "False"
\* or "raise" (an exception other than the two that are caught).
Returned(st, ret) == [v |-> st, ret |-> ret]

\* The for loop of validate_file over the entries, from entry n (1-based
\* here, enumerate's index is n - 1).
RECURSIVE ValidateAppsFrom(_, _, _, _)
ValidateAppsFrom(st, filename, apps, n) ==
    IF n > Len(apps) \/ st.exc # "" THEN st
    ELSE CHOOSE out \in
            { ValidateAppsFrom(s1, filename, apps, n + 1) :
                s1 \in {_validate_app(st, filename, apps[n], n - 1)} } : TRUE

\* "applications" in config, for whatever json.load returned: "in", "out" or
\* the exception raised.
HasApplications(config) ==
    CASE config.k = "dict" ->
            IF "applications" \in DOMAIN config.v THEN "in" ELSE "out"
      [] config.k = "list" ->
            IF \E i \in 1..Len(config.v) : config.v[i] = JStr(S_applications)
            THEN "in" ELSE "out"
      [] config.k = "str" ->
            IF Contains(config.v, S_applications) THEN "in" ELSE "out"
      [] OTHER -> "TypeError"

\* Lines 136-150: the filename check on the first entry, then the verdict.
FilenameCheck(st, filename, apps, initial_error_count) ==
    LET app0 == apps[1] IN
    IF app0.k # "dict" THEN Returned(Raise(st, "AttributeError"), "raise")
    ELSE LET app_name == GetOr(app0, "name", JStr(<<>>)) IN
         IF ~IsStr(app_name) THEN Returned(Raise(st, "AttributeError"), "raise")
         ELSE LET expected_filename == Lower(app_name.v) \o S_json
                  s1 == IF Lower(filename) # Lower(expected_filename)
                        THEN AddWarning(st, filename,
                                        "Filename doesn't match app name", <<"name">>)
                        ELSE st
              IN Returned(s1, IF Len(s1.errors) = initial_error_count
                              THEN "True" ELSE "False")

\* Lines 113-150, with config loaded.
ValidateConfig(st, filename, config, initial_error_count) ==
    LET has == HasApplications(config) IN
    IF has = "TypeError" THEN Returned(Raise(st, "TypeError"), "raise")
    ELSE IF has = "out"
    THEN Returned(AddError(st, filename, "Missing 'applications' array",
                           <<"applications">>), "False")
    ELSE IF config.k # "dict" THEN Returned(Raise(st, "TypeError"), "raise")
    ELSE LET apps == config.v["applications"] IN
         IF apps.k # "list"
         THEN Returned(AddError(st, filename, "'applications' must be an array",
                                <<"applications">>), "False")
         ELSE IF Len(apps.v) = 0
         THEN Returned(AddError(st, filename, "'applications' array is empty",
                                <<"applications">>), "False")
         ELSE CHOOSE out \in
                 { IF s1.exc # "" THEN Returned(s1, "raise")
                   ELSE FilenameCheck(s1, filename, apps.v, initial_error_count) :
                     s1 \in {ValidateAppsFrom(st, filename, apps.v, 1)} } : TRUE

\* ConfigValidator.validate_file(config_path).  schema says whether a schema
\* was supplied and jsonschema is installed: jsonschema.validate then raises
\* for one of the rules the document violates, which becomes one error.
ValidateFile(st, filename, content, schema) ==
    LET initial_error_count == Len(st.errors) IN
    IF content.text = "garbage"
    THEN Returned(AddError(st, filename, "Invalid JSON", <<>>), "False")
    ELSE IF content.text = "unreadable"
    THEN Returned(AddError(st, filename, "Cannot read file", <<>>), "False")
    ELSE ValidateConfig(
            IF schema /\ content.viol > 0
            THEN AddError(st, filename, "schema violation", <<"schema">>)
            ELSE st,
            filename, content.doc, initial_error_count)

(***************************************************************************)
(* Name resolver.                                                          *)
(***************************************************************************)

\* config_path.stem of a *.json file.
Stem(filename) == SubSeq(filename, 1, Len(filename) - Len(S_json))

\* The value a call returns or the exception it raises:
\* [kind |-> "value", value |-> a JSON value] (None is JNull), or
\* [kind |-> "raise", exception |-> its name].
Value(x) == [kind |-> "value", value |-> x]
Raised(exception) == [kind |-> "raise", exception |-> exception]

\* Lines 53-58: the top-level name, then the filename stem.
TopLevelName(filename, config) ==
    IF config.k # "dict" THEN Raised("AttributeError")
    ELSE IF Truthy(Get(config, "name")) THEN Value(config.v["name"])
    ELSE Value(JStr(Stem(filename)))

\* A plausible slip: the top-level name is looked up before the entry's.
FirstAppNameAfterTopLevel(filename, config, apps) ==
    TopLevelName(filename, config)

\* config["applications"][0].get("name") and what follows, for a truthy
\* config["applications"].
FirstAppName(filename, config, apps) ==
    IF apps.k = "dict"
    THEN Raised("KeyError")
    ELSE IF apps.k # "list" /\ apps.k # "str"
    THEN Raised("TypeError")
    ELSE IF apps.k = "str" \/ apps.v[1].k # "dict"
    THEN Raised("AttributeError")
    ELSE LET app_name == Get(apps.v[1], "name") IN
         IF Truthy(app_name) THEN Value(app_name)
         ELSE TopLevelName(filename, config)

\* extract_app_name(config_path)
ExtractAppName(filename, content) ==
    IF content.text # "json" THEN Value(JNull)
    ELSE LET config == content.doc
             has == HasApplications(config)
         IN IF has = "TypeError" THEN Raised("TypeError")
            ELSE IF has = "in" /\ config.k # "dict" THEN Raised("TypeError")
            ELSE IF has = "in" /\ Truthy(config.v["applications"])
            THEN FirstAppName(filename, config, config.v["applications"])
            ELSE TopLevelName(filename, config)

(***************************************************************************)
(* compute_repo_hash applied to two lists of strings.                      *)
(***************************************************************************)

\* The longest list of hashes.
MaxHashes == 3

\* The strings the lists are made of: the empty one, one with a newline.
HashStrings == { <<>>, <<"a">>, <<"b">>, <<"a", "b">>, <<"a", "\n", "b">> }

SeqsUpTo(S, n) == UNION { [1..m -> S] : m \in 0..n }

HashInit ==
    /\ hashInA \in SeqsUpTo(HashStrings, MaxHashes)
    /\ hashInB \in SeqsUpTo(HashStrings, MaxHashes)
    /\ hashOut = <<>>

HashApply ==
    /\ hashOut = <<>>
    /\ hashOut' = <<ComputeRepoHash(hashInA), ComputeRepoHash(hashInB)>>
    /\ UNCHANGED <<hashInA, hashInB, docVars, runVars>>

\* How many times x occurs in l.
Count(l, x) == Cardinality({ i \in 1..Len(l) : l[i] = x })

\* l2 is a reordering of l1: every element occurs as often in both.
IsPermutation(l1, l2) ==
    /\ Len(l1) = Len(l2)
    /\ \A i \in 1..Len(l1) : Count(l1, l1[i]) = Count(l2, l1[i])

\* A string compute_sha256 can return has no newline and is not empty.
HashLike(s) == s # <<>> /\ \A i \in 1..Len(s) : s[i] # NL

AllHashLike(l) == \A i \in 1..Len(l) : HashLike(l[i])

\* C5: compute_repo_hash gives the same result for a list of hash strings
\* and for every reordering of it.
C5_PermutationInvariant ==
    (hashOut # <<>> /\ IsPermutation(hashInA, hashInB))
        => hashOut[1] = hashOut[2]

C5_Witness ==
    /\ hashOut # <<>>
    /\ Len(hashInA) = 3
    /\ IsPermutation(hashInA, hashInB)
    /\ hashInA # hashInB
    /\ hashOut[1] = hashOut[2]

\* C6 as claimed: for any two lists of strings that are not reorderings of
\* each other, the strings that are digested differ.
C6_AnyStringsDiffer ==
    (hashOut # <<>> /\ ~IsPermutation(hashInA, hashInB))
        => hashOut[1].hex # hashOut[2].hex

\* C6 amended: for any two lists of non-empty strings without newlines (as
\* every per-file hash is) that are not reorderings of each other, the
\* strings that are digested differ, and so do the results.
C6_HashListsDiffer ==
    (/\ hashOut # <<>>
     /\ AllHashLike(hashInA) /\ AllHashLike(hashInB)
     /\ ~IsPermutation(hashInA, hashInB))
        => /\ hashOut[1].hex # hashOut[2].hex
           /\ hashOut[1] # hashOut[2]

C6_Witness ==
    /\ hashOut # <<>>
    /\ AllHashLike(hashInA) /\ AllHashLike(hashInB)
    /\ Len(hashInA) = 2 /\ Len(hashInB) = 3
    /\ \A i \in 1..2 : hashInA[i] = hashInB[i]
    /\ hashOut[1].hex # hashOut[2].hex

(***************************************************************************)
(* validate_file and extract_app_name applied to one config file.          *)
(***************************************************************************)

\* A key that is not in a dict.
Missing == [k |-> "missing"]

\* The dict with the keys of choice that are not Missing.
MkDict(choice) ==
    JDict([key \in {c \in DOMAIN choice : choice[c] # Missing} |-> choice[key]])

S_Foo == <<"F", "o", "o">>
S_Bar == <<"B", "a", "r">>
S_url == S_https \o <<"x">>
S_dir == <<"d", "l">>
S_pattern == <<".", "*">>

\* A valid entry named Foo.
GoodEntry ==
    MkDict([name |-> JStr(S_Foo), url |-> JStr(S_url),
            download_dir |-> JStr(S_dir), pattern |-> JStr(S_pattern)])

NameChoices ==
    { Missing, JNull, JStr(<<>>), JStr(S_Foo), JInt(5), JInt(0), JBool(TRUE),
      JList(<<JStr(S_Foo)>>) }
UrlChoices == { Missing, JNull, JStr(<<>>), JStr(S_url) }
DirChoices == { Missing, JNull, JStr(<<>>), JStr(S_dir) }
PatternChoices == { Missing, JNull, JStr(<<>>), JStr(S_pattern) }

\* Entries with every combination of the required fields' kinds of value.
SampleEntries ==
    { MkDict([name |-> n, url |-> u, download_dir |-> d, pattern |-> p]) :
        n \in NameChoices, u \in UrlChoices, d \in DirChoices, p \in PatternChoices }

\* Entries with a valid name.
NamedEntries == { e \in SampleEntries : Get(e, "name") = JStr(S_Foo) }

TopNameChoices == { Missing, JStr(<<>>), JStr(S_Bar), JInt(7) }

\* An entry with one more key, or another value for one of its keys.
With(entry, field, value) ==
    JDict([key \in DOMAIN entry.v \cup {field} |->
             IF key = field THEN value ELSE entry.v[key]])

\* An entry that is valid but for its null name.
NullNameEntry == With(GoodEntry, "name", JNull)

\* Values of every JSON type that is no string, the falsy ones included.
NonStrings ==
    { JNull, JBool(TRUE), JBool(FALSE), JInt(0), JInt(5), JFloat(5),
      JList(<<>>), JList(<<JStr(S_url)>>), JDict(NoKeys) }

\* Strings for the path fields.
PathStrings ==
    { <<>>, S_dir, <<"/", "e", "t", "c">>, <<"~", "/", "x">>, <<"C", ":", "x">>,
      <<"c", ":">>, <<"1", ":">>, <<"a", "/", "b">>, <<"a", ":">> \o S_dir }

\* The values tried for each field of an entry: the values that are no
\* strings, and strings (for checksum, objects) that pass and that fail.
FieldChoices ==
    [ url |->
        NonStrings
        \cup { JStr(x) : x \in
                 { <<>>, S_url, S_http \o <<"x">>, S_http, <<"x">>,
                   <<"f", "t", "p", ":", "/", "/", "x">>,
                   <<"h", "t", "t", "p", ":", "/">> } },
      pattern |->
        NonStrings
        \cup { JStr(x) : x \in
                 { <<>>, S_pattern, <<"a">>, <<"[", "a">>, <<"(", "a">>, <<"a", ")">>,
                   <<"*", "a">>, <<"(", "a", ")">>, <<"[", "a", "]">> } },
      download_dir |-> NonStrings \cup { JStr(x) : x \in PathStrings },
      symlink_path |-> NonStrings \cup { JStr(x) : x \in PathStrings },
      source_type |->
        NonStrings
        \cup { JStr(x) : x \in
                 VALID_SOURCE_TYPES
                 \cup { <<>>, <<"s", "v", "n">>, <<"G", "i", "t", "H", "u", "b">> } },
      checksum |->
        NonStrings
        \cup { JStr(<<"m", "d", "5">>) }
        \cup { MkDict([enabled |-> e, algorithm |-> a]) :
                 e \in { Missing, JBool(TRUE), JInt(1), JNull },
                 a \in { Missing, JStr(<<"s", "h", "a", "2", "5", "6">>),
                         JStr(<<"m", "d", "5">>), JStr(<<"c", "r", "c">>), JInt(5),
                         JNull, JList(<<>>), JList(<<JStr(<<"m", "d", "5">>)>>),
                         JDict(NoKeys) } },
      version_pattern |-> NonStrings \cup { JStr(<<>>), JStr(S_pattern) },
      basename |-> NonStrings \cup { JStr(<<>>), JStr(S_Foo) },
      enabled |-> NonStrings \cup { JStr(<<>>), JStr(S_Foo) },
      prerelease |-> NonStrings \cup { JStr(<<>>), JStr(S_Foo) },
      rotation_enabled |-> NonStrings \cup { JStr(<<>>), JStr(S_Foo) },
      retain_count |-> NonStrings \cup { JStr(<<>>), JStr(<<"5">>) } ]

\* A valid entry, and one with a null name, with one field set to each of
\* its values.
FieldEntries(base) ==
    UNION { { With(base, f, v) : v \in FieldChoices[f] } : f \in DOMAIN FieldChoices }

\* Documents where the entry is the only one, and where it is the second.
FieldDocs ==
    { MkDict([applications |-> JList(<<e>>)]) :
        e \in FieldEntries(GoodEntry) \cup FieldEntries(NullNameEntry) }
    \cup { MkDict([applications |-> JList(<<GoodEntry, e>>)]) :
             e \in FieldEntries(GoodEntry) }

\* Documents: an object with one entry, with two entries, with an
\* applications value that is no list of objects, and other JSON values.
SampleDocs ==
    { MkDict([applications |-> JList(<<e>>), name |-> t]) :
        e \in SampleEntries, t \in TopNameChoices }
    \cup { MkDict([applications |-> JList(<<e0, e1>>), name |-> Missing]) :
             e0 \in {GoodEntry, MkDict([name |-> JInt(5)])}, e1 \in NamedEntries }
    \cup { MkDict([applications |-> a, name |-> t]) :
             a \in { Missing, JNull, JList(<<>>), JList(<<JInt(5)>>),
                     JList(<<JStr(S_Foo)>>), JStr(S_Foo), JInt(5), JBool(TRUE),
                     JDict(NoKeys), MkDict([name |-> JStr(S_Foo)]) },
             t \in TopNameChoices }
    \cup { JNull, JInt(5), JList(<<>>), JList(<<JStr(S_applications)>>),
           JStr(S_applications), JStr(S_Foo) }
    \cup FieldDocs
    \cup { MkDict([applications |-> JList(<<e>>)]) :
             e \in { With(With(GoodEntry, "name", JStr(n)), "checksum", c) :
                        n \in { <<"m", "y", " ", "a", "p", "p">>, <<"f", "o", "o">>,
                                <<"F", "O", "O">>, <<"f", "o", "o", "!">> },
                        c \in { JNull, MkDict([algorithm |-> JList(<<>>)]) } } }
    \cup { MkDict([applications |->
                     JList(<<With(GoodEntry, "name", n),
                             With(GoodEntry, "name", JStr(<<"m", "y", " ", "a", "p", "p">>))>>)]) :
             n \in { JInt(0), JStr(S_Foo) } }

SampleContents ==
    { [sha |-> <<"0">>, text |-> "json", doc |-> d, viol |-> n] :
        d \in SampleDocs, n \in {0, 2} }
    \cup { [sha |-> <<"0">>, text |-> t, doc |-> JNull, viol |-> 0] :
             t \in {"garbage", "unreadable"} }

S_MyApp_json == <<"M", "y", "A", "p", "p">> \o S_json
S_foo_json == <<"f", "o", "o">> \o S_json

\* A validator that already holds an error of an earlier file.
UsedValidator == AddError(NewValidator, S_MyApp_json, "Invalid JSON", <<>>)

\* No call was made yet.
NotCalled == [ret |-> "none", kind |-> "none"]

DocInit ==
    /\ docName \in {S_MyApp_json, S_foo_json}
    /\ docContent \in SampleContents
    /\ docSchema \in BOOLEAN
    /\ valIn \in {NewValidator, UsedValidator}
    /\ valOut = NotCalled
    /\ nameOut = NotCalled

DocValidate ==
    /\ valOut = NotCalled
    /\ valOut' = ValidateFile(valIn, docName, docContent, docSchema)
    /\ UNCHANGED <<docName, docContent, docSchema, valIn, nameOut, hashVars, runVars>>

DocExtract ==
    /\ nameOut = NotCalled
    /\ nameOut' = ExtractAppName(docName, docContent)
    /\ UNCHANGED <<docName, docContent, docSchema, valIn, valOut, hashVars, runVars>>

DocNext == DocValidate \/ DocExtract

DocTypeOK ==
    /\ valOut.ret \in {"none", "True", "False", "raise"}
    /\ nameOut.kind \in {"none", "value", "raise"}

(***************************************************************************)
(* Index builder.                                                          *)
(***************************************************************************)

S_sha256 == <<"s", "h", "a", "2", "5", "6", ":">>

\* compute_sha256(file_path): "sha256:" + the hex digest of the bytes.
ComputeSha256(content) == S_sha256 \o content.sha

\* No such file in the configs directory.
NoFile == [sha |-> <<>>, text |-> "absent", doc |-> JNull, viol |-> 0]

\* configs_dir.glob("*.json"), as names.
Glob(dir) == { f \in DOMAIN dir.files : dir.files[f] # NoFile }

\* The elements of a set in the order an enumeration happens to give.
RECURSIVE AnyOrder(_)
AnyOrder(S) ==
    IF S = {} THEN <<>>
    ELSE LET x == CHOOSE x \in S : TRUE IN <<x>> \o AnyOrder(S \ {x})

\* A dict with one more item (a later one replaces an earlier one).
DictSet(d, key, value) ==
    [x \in DOMAIN d \cup {key} |-> IF x = key THEN value ELSE d[x]]

\* The empty dict.
EmptyDict == [x \in {} |-> JNull]

\* Lines 85-87: the locals of build_index, with the validator and the
\* exception that is propagating, if any.
BuildStart(validator) ==
    [apps |-> EmptyDict, config_hashes |-> <<>>, validation_failed |-> FALSE,
     v |-> validator, exc |-> ""]

\* A plausible slip: the hash is collected only for a name not yet indexed.
AddEntryOncePerName(acc, filename, content, app_name) ==
    LET relative_path == S_configs \o filename
        file_hash == ComputeSha256(content)
    IN [acc EXCEPT
          !.apps = DictSet(@, app_name, JList(<<JStr(relative_path), JStr(file_hash)>>)),
          !.config_hashes = IF app_name \in DOMAIN acc.apps THEN @
                            ELSE Append(@, file_hash)]

\* A plausible slip: the first file of a name keeps the entry.
AddEntryFirstWins(acc, filename, content, app_name) ==
    LET relative_path == S_configs \o filename
        file_hash == ComputeSha256(content)
    IN [acc EXCEPT
          !.apps = IF app_name \in DOMAIN acc.apps THEN @
                   ELSE DictSet(@, app_name,
                                JList(<<JStr(relative_path), JStr(file_hash)>>)),
          !.config_hashes = Append(@, file_hash)]

\* Lines 104-107: the entry of a validated file.
AddEntry(acc, filename, content, app_name) ==
    LET relative_path == S_configs \o filename
        file_hash == ComputeSha256(content)
    IN [acc EXCEPT
          !.apps = DictSet(@, app_name, JList(<<JStr(relative_path), JStr(file_hash)>>)),
          !.config_hashes = Append(@, file_hash)]

\* Lines 100-108: the file passed validation; app_name is what
\* extract_app_name gave.
IndexFile(acc, filename, content, app_name) ==
    IF app_name.kind = "raise" THEN [acc EXCEPT !.exc = app_name.exception]
    ELSE IF app_name.value = JNull THEN acc
    ELSE IF app_name.value.k \in {"list", "dict"}
    THEN [acc EXCEPT !.exc = "TypeError"]
    ELSE AddEntry(acc, filename, content, app_name.value)

\* Lines 95-108, r being what validate_file gave.
AfterValidate(acc, filename, content, r) ==
    IF r.ret = "raise" THEN [acc EXCEPT !.v = r.v, !.exc = r.v.exc]
    ELSE IF r.ret = "False"
    THEN [acc EXCEPT !.v = r.v, !.validation_failed = TRUE]
    ELSE CHOOSE out \in
            { IndexFile([acc EXCEPT !.v = r.v], filename, content, app_name) :
                app_name \in {ExtractAppName(filename, content)} } : TRUE

\* One pass of the loop of build_index (lines 94-108).
BuildStep(acc, dir, filename, schema) ==
    CHOOSE out \in
       { AfterValidate(acc, filename, dir.files[filename], r) :
           r \in {ValidateFile(acc.v, filename, dir.files[filename], schema)} } : TRUE

RECURSIVE BuildLoop(_, _, _, _, _)
BuildLoop(acc, dir, paths, n, schema) ==
    IF n > Len(paths) \/ acc.exc # "" THEN acc
    ELSE CHOOSE out \in
            { BuildLoop(a1, dir, paths, n + 1, schema) :
                a1 \in {BuildStep(acc, dir, paths[n], schema)} } : TRUE

\* A plausible slip: the timestamp is hashed with the config hashes.
MakeIndexHashingTime(apps, config_hashes, now) ==
    [key \in {JStr(S_repo_hash), JStr(S_generated_at)} \cup DOMAIN apps |->
        IF key \in DOMAIN apps THEN apps[key]
        ELSE IF key = JStr(S_repo_hash)
        THEN JStr([prefix |-> "sha256:",
                   hex |-> Sha256Hex(<<Join(NL, Sorted(config_hashes)), now>>)])
        ELSE JStr([isoformat |-> now])]

\* Lines 120-125: the index, the entries after (and over) the two metadata
\* keys.  now is what datetime.now(timezone.utc) returns.
MakeIndex(apps, config_hashes, now) ==
    [key \in {JStr(S_repo_hash), JStr(S_generated_at)} \cup DOMAIN apps |->
        IF key \in DOMAIN apps THEN apps[key]
        ELSE IF key = JStr(S_repo_hash) THEN JStr(ComputeRepoHash(config_hashes))
        ELSE JStr([isoformat |-> now])]

\* What build_index gives: [kind |-> "index", index |-> ...], or
\* [kind |-> "none"] for None, or [kind |-> "raise"] with the exception.
BuildResult(kind, index, exception) ==
    [kind |-> kind, index |-> index, exception |-> exception]

\* Lines 110-127: after the loop.
AfterLoop(acc, now) ==
    IF acc.exc # "" THEN BuildResult("raise", EmptyDict, acc.exc)
    ELSE IF acc.validation_failed THEN BuildResult("none", EmptyDict, "")
    ELSE IF acc.apps = EmptyDict THEN BuildResult("none", EmptyDict, "")
    ELSE BuildResult("index", MakeIndex(acc.apps, acc.config_hashes, now), "")

\* build_index(configs_dir, validator)
BuildIndex(dir, validator, schema, now) ==
    IF ~dir.exists THEN BuildResult("none", EmptyDict, "")
    ELSE CHOOSE out \in
            { AfterLoop(acc, now) :
                acc \in { BuildLoop(BuildStart(validator), dir,
                                    CHOOSE paths \in {Sorted(AnyOrder(Glob(dir)))} : TRUE,
                                    1, schema) } } : TRUE

(***************************************************************************)
(* update_index: runs over a repository root.  A file on disk is           *)
(* [exists, data], data the chunks written to it so far.                   *)
(***************************************************************************)

\* The values datetime.now() returns are 1..MaxTime.
MaxTime == 2

Times == 1..MaxTime

\* The runs of update_index.
Runs == {"run1", "run2"}

\* repo_root / "index.json" and repo_root / "new_index.json"
IndexPath == "index.json"

\* A plausible slip: the index is written in place.
NewIndexPathInPlace == "index.json"

NewIndexPath == "new_index.json"

NoFileOnDisk == [exists |-> FALSE, data |-> <<>>]

\* json.dump(index, f, indent=2, sort_keys=True) as the chunks it writes:
\* the opening brace, one item per key in sorted order, the closing brace.
DumpChunks(index) ==
    LET keys == Sorted(AnyOrder({ key.v : key \in DOMAIN index }))
    IN <<[t |-> "{"]>>
       \o [i \in 1..Len(keys) |->
             [t |-> "item", key |-> keys[i], value |-> index[JStr(keys[i])]]]
       \o <<[t |-> "}"]>>

\* Lines 159-161: what a run writes, the trailing newline last.
Chunks(index) == DumpChunks(index) \o <<[t |-> "\n"]>>

\* The complete file of an index.
FileOf(index) == [exists |-> TRUE, data |-> Chunks(index)]

\* A write of one chunk at offset n of a file (a hole is left before an
\* offset beyond the end).
WriteAt(file, n, chunk) ==
    [exists |-> file.exists,
     data |-> [i \in 1..(IF n + 1 > Len(file.data) THEN n + 1 ELSE Len(file.data)) |->
                 IF i = n + 1 THEN chunk
                 ELSE IF i <= Len(file.data) THEN file.data[i]
                 ELSE [t |-> "hole"]]]

\* os.replace(src, dst) on the two names.
OsReplace(fsys, src, dst) ==
    IF src = dst THEN fsys
    ELSE [fsys EXCEPT ![dst] = fsys[src], ![src] = NoFileOnDisk]

\* json.load of index.json by a reader: "missing", "partial" (a
\* JSONDecodeError) or "complete".
ReadIndex(file) ==
    IF ~file.exists THEN "missing"
    ELSE LET d == file.data
             n == IF Len(d) > 0 /\ d[Len(d)].t = "\n" THEN Len(d) - 1 ELSE Len(d)
         IN IF /\ n >= 2
               /\ d[1].t = "{"
               /\ d[n].t = "}"
               /\ \A i \in 2..(n - 1) : d[i].t = "item"
            THEN "complete" ELSE "partial"

\* The repo_hash a reader finds in an index file (json.load, then
\* ["repo_hash"]); JNull when there is none.
RepoHashIn(file) ==
    LET items == { i \in 1..Len(file.data) :
                     file.data[i].t = "item" /\ file.data[i].key = S_repo_hash }
    IN IF items = {} THEN JNull ELSE file.data[CHOOSE i \in items : TRUE].value

Quiet == \A r \in Runs : pc[r] \in {"idle", "off"}

S_bar_json == <<"b", "a", "r">> \o S_json

\* The names of the files of the configs directory.
FileNames == {S_bar_json, S_foo_json}

\* The configs directory when it does not exist, and when it is empty.
NoDir == [exists |-> FALSE, files |-> [f \in FileNames |-> NoFile]]
EmptyDir == [exists |-> TRUE, files |-> [f \in FileNames |-> NoFile]]

\* What is known of the last successful run: the directory it indexed, the
\* index it wrote, and in how many file names that directory differed from
\* the one of the successful run before it (-1 when there was none).
NoRun == [any |-> FALSE, dir |-> NoDir, index |-> EmptyDict, changed |-> -1]

\* The file names whose content differs between two directories.
ChangedFiles(dir1, dir2) == { f \in FileNames : dir1.files[f] # dir2.files[f] }

\* A plausible slip: a failed run removes the index it could not rebuild.
OnBuildFailedDropsIndex(r) ==
    /\ pc' = [pc EXCEPT ![r] = "returned"]
    /\ retval' = [retval EXCEPT ![r] = "False"]
    /\ fs' = [fs EXCEPT ![IndexPath] = NoFileOnDisk]
    /\ UNCHANGED <<idx, pos, fd, lastOk>>

\* Lines 149-151: build_index gave None.
OnBuildFailed(r) ==
    /\ pc' = [pc EXCEPT ![r] = "returned"]
    /\ retval' = [retval EXCEPT ![r] = "False"]
    /\ UNCHANGED <<fs, idx, pos, fd, lastOk>>

\* update_index up to line 155: the schema is loaded, the index is built.
UpdateIndexBuild(r) ==
    /\ pc[r] = "idle"
    /\ \E schema \in BOOLEAN, now \in Times :
         \E b \in {BuildIndex(configs, NewValidator, schema, now)} :
         IF b.kind = "raise"
         THEN /\ pc' = [pc EXCEPT ![r] = "returned"]
              /\ retval' = [retval EXCEPT ![r] = "raise"]
              /\ UNCHANGED <<fs, idx, pos, fd, lastOk>>
         ELSE IF b.kind = "none" THEN OnBuildFailed(r)
         ELSE /\ pc' = [pc EXCEPT ![r] = "built"]
              /\ idx' = [idx EXCEPT ![r] = b.index]
              /\ UNCHANGED <<fs, pos, fd, retval, lastOk>>
    /\ UNCHANGED <<configs, hashVars, docVars>>

\* Line 159: open(new_index_path, "w") creates the file or truncates it.
OpenNewIndex(r) ==
    /\ pc[r] = "built"
    /\ fs' = [fs EXCEPT ![NewIndexPath] = [exists |-> TRUE, data |-> <<>>]]
    /\ pc' = [pc EXCEPT ![r] = "writing"]
    /\ fd' = [fd EXCEPT ![r] = NewIndexPath]
    /\ pos' = [pos EXCEPT ![r] = 0]
    /\ UNCHANGED <<configs, idx, retval, lastOk, hashVars, docVars>>

\* Lines 160-161: one chunk reaches the open file; after the last one the
\* file is closed.
WriteChunk(r) ==
    /\ pc[r] = "writing"
    /\ pos[r] < Len(Chunks(idx[r]))
    /\ fs' = IF fd[r] \in DOMAIN fs
             THEN [fs EXCEPT ![fd[r]] = WriteAt(@, pos[r], Chunks(idx[r])[pos[r] + 1])]
             ELSE fs
    /\ pos' = [pos EXCEPT ![r] = @ + 1]
    /\ IF pos[r] + 1 = Len(Chunks(idx[r]))
       THEN /\ pc' = [pc EXCEPT ![r] = "written"]
            /\ fd' = [fd EXCEPT ![r] = "closed"]
       ELSE UNCHANGED <<pc, fd>>
    /\ UNCHANGED <<configs, idx, retval, lastOk, hashVars, docVars>>

\* Lines 165-168: os.replace(new_index_path, index_path), then True.  An
\* open file keeps its data under the new name; a file replaced loses its
\* name.
ReplaceIndex(r) ==
    /\ pc[r] = "written"
    /\ pc' = [pc EXCEPT ![r] = "returned"]
    /\ idx' = [idx EXCEPT ![r] = EmptyDict]
    /\ pos' = [pos EXCEPT ![r] = 0]
    /\ IF fs[NewIndexPath].exists
       THEN /\ fs' = OsReplace(fs, NewIndexPath, IndexPath)
            /\ fd' = [q \in Runs |->
                        IF NewIndexPath = IndexPath THEN fd[q]
                        ELSE IF fd[q] = NewIndexPath THEN IndexPath
                        ELSE IF fd[q] = IndexPath THEN "unlinked"
                        ELSE fd[q]]
            /\ retval' = [retval EXCEPT ![r] = "True"]
            /\ lastOk' = [any |-> TRUE, dir |-> configs, index |-> idx[r],
                          changed |-> IF lastOk.any
                                      THEN Cardinality(ChangedFiles(lastOk.dir, configs))
                                      ELSE -1]
       ELSE /\ retval' = [retval EXCEPT ![r] = "raise"]
            /\ UNCHANGED <<fs, fd, lastOk>>
    /\ UNCHANGED <<configs, hashVars, docVars>>

\* The caller has the result (main returns the exit status); the next call
\* can be made.
Return(r) ==
    /\ pc[r] = "returned"
    /\ pc' = [pc EXCEPT ![r] = "idle"]
    /\ retval' = [retval EXCEPT ![r] = "none"]
    /\ UNCHANGED <<configs, fs, idx, pos, fd, lastOk, hashVars, docVars>>

\* The process is killed between build_index and the end of os.replace.
Crash(r) ==
    /\ pc[r] \in {"built", "writing", "written"}
    /\ pc' = [pc EXCEPT ![r] = "idle"]
    /\ idx' = [idx EXCEPT ![r] = EmptyDict]
    /\ pos' = [pos EXCEPT ![r] = 0]
    /\ fd' = [fd EXCEPT ![r] = "closed"]
    /\ UNCHANGED <<configs, fs, retval, lastOk, hashVars, docVars>>

(***************************************************************************)
(* The environment: config files are written and removed between runs.     *)
(***************************************************************************)

ConfigOf(sha, entry, viol) ==
    [sha |-> sha, text |-> "json",
     doc |-> MkDict([applications |-> JList(<<entry>>)]), viol |-> viol]

\* Two valid configs of the application Foo with different bytes, a valid
\* config of Bar, a config without pattern, a config whose name is null.
FooV1 == ConfigOf(<<"c", "1">>, GoodEntry, 0)
FooV2 ==
    ConfigOf(<<"a", "2">>,
             MkDict([name |-> JStr(S_Foo), url |-> JStr(S_http \o <<"y">>),
                     download_dir |-> JStr(S_dir), pattern |-> JStr(S_pattern)]), 0)
BarV1 ==
    ConfigOf(<<"b", "3">>,
             MkDict([name |-> JStr(S_Bar), url |-> JStr(S_url),
                     download_dir |-> JStr(S_dir), pattern |-> JStr(S_pattern)]), 0)
NoPattern ==
    ConfigOf(<<"d", "4">>,
             MkDict([name |-> JStr(S_Foo), url |-> JStr(S_url),
                     download_dir |-> JStr(S_dir), pattern |-> Missing]), 1)
NullName ==
    ConfigOf(<<"e", "5">>,
             MkDict([name |-> JNull, url |-> JStr(S_url),
                     download_dir |-> JStr(S_dir), pattern |-> JStr(S_pattern)]), 1)

RunContents == {FooV1, FooV2, BarV1, NoPattern, NullName}

\* Valid configs of applications named like the metadata keys of the index.
RepoHashNamed ==
    ConfigOf(<<"f", "6">>,
             MkDict([name |-> JStr(S_repo_hash), url |-> JStr(S_url),
                     download_dir |-> JStr(S_dir), pattern |-> JStr(S_pattern)]), 0)
GeneratedAtNamed ==
    ConfigOf(<<"a", "7">>,
             MkDict([name |-> JStr(S_generated_at), url |-> JStr(S_url),
                     download_dir |-> JStr(S_dir), pattern |-> JStr(S_pattern)]), 0)

\* Valid configs only, of any name the validator accepts.
ValidContents == {FooV1, BarV1, RepoHashNamed, GeneratedAtNamed}

\* The contents written, and the one file name written, where runs can be
\* killed.
CrashContents == {FooV1, BarV1, NoPattern}
CrashFiles == {S_foo_json}

\* A config file is added or modified.
EnvWriteConfig(f, c) ==
    /\ Quiet
    /\ configs.exists
    /\ configs.files[f] # c
    /\ configs' = [configs EXCEPT !.files[f] = c]
    /\ UNCHANGED <<fs, pc, idx, pos, fd, retval, lastOk, hashVars, docVars>>

\* A config file is removed.
EnvRemoveConfig(f) ==
    /\ Quiet
    /\ configs.files[f] # NoFile
    /\ configs' = [configs EXCEPT !.files[f] = NoFile]
    /\ UNCHANGED <<fs, pc, idx, pos, fd, retval, lastOk, hashVars, docVars>>

\* The configs directory is removed, or made.
EnvRemoveDir ==
    /\ Quiet
    /\ configs.exists
    /\ configs' = NoDir
    /\ UNCHANGED <<fs, pc, idx, pos, fd, retval, lastOk, hashVars, docVars>>

EnvMakeDir ==
    /\ Quiet
    /\ ~configs.exists
    /\ configs' = EmptyDir
    /\ UNCHANGED <<fs, pc, idx, pos, fd, retval, lastOk, hashVars, docVars>>

(***************************************************************************)
(* Specifications.                                                         *)
(***************************************************************************)

HashIdle == hashInA = <<>> /\ hashInB = <<>> /\ hashOut = <<>>

DocIdle ==
    /\ docName = S_foo_json
    /\ docContent = NoFile
    /\ docSchema = FALSE
    /\ valIn = NewValidator
    /\ valOut = NotCalled
    /\ nameOut = NotCalled

\* One process runs update_index, again and again; nothing is on disk yet.
RunInit ==
    /\ configs = EmptyDir
    /\ fs = [n \in {"index.json", "new_index.json"} |-> NoFileOnDisk]
    /\ pc = [r \in Runs |-> IF r = "run1" THEN "idle" ELSE "off"]
    /\ idx = [r \in Runs |-> EmptyDict]
    /\ pos = [r \in Runs |-> 0]
    /\ fd = [r \in Runs |-> "closed"]
    /\ retval = [r \in Runs |-> "none"]
    /\ lastOk = NoRun

Init == RunInit /\ HashIdle /\ DocIdle

Next ==
    \/ \E f \in FileNames, c \in RunContents : EnvWriteConfig(f, c)
    \/ \E f \in FileNames : EnvRemoveConfig(f)
    \/ EnvRemoveDir
    \/ EnvMakeDir
    \/ \E r \in Runs : UpdateIndexBuild(r)
    \/ \E r \in Runs : OpenNewIndex(r)
    \/ \E r \in Runs : WriteChunk(r)
    \/ \E r \in Runs : ReplaceIndex(r)
    \/ \E r \in Runs : Return(r)

\* Runs of update_index that run to their end.
Spec == Init /\ [][Next]_vars

NextCrash ==
    \/ \E f \in CrashFiles, c \in CrashContents : EnvWriteConfig(f, c)
    \/ \E f \in CrashFiles : EnvRemoveConfig(f)
    \/ \E r \in Runs : UpdateIndexBuild(r)
    \/ \E r \in Runs : OpenNewIndex(r)
    \/ \E r \in Runs : WriteChunk(r)
    \/ \E r \in Runs : ReplaceIndex(r)
    \/ \E r \in Runs : Return(r)
    \/ \E r \in Runs : Crash(r)

\* Runs of update_index that can be killed at any point.
SpecCrash == Init /\ [][NextCrash]_vars

NextValid ==
    \/ \E f \in FileNames, c \in ValidContents : EnvWriteConfig(f, c)
    \/ \E f \in FileNames : EnvRemoveConfig(f)
    \/ \E r \in Runs : UpdateIndexBuild(r)
    \/ \E r \in Runs : OpenNewIndex(r)
    \/ \E r \in Runs : WriteChunk(r)
    \/ \E r \in Runs : ReplaceIndex(r)
    \/ \E r \in Runs : Return(r)

\* Runs of update_index over directories of valid configs.
SpecValid == Init /\ [][NextValid]_vars

\* Two processes run update_index on one repository root.
InitBoth ==
    /\ configs = EmptyDir
    /\ fs = [n \in {"index.json", "new_index.json"} |-> NoFileOnDisk]
    /\ pc = [r \in Runs |-> "idle"]
    /\ idx = [r \in Runs |-> EmptyDict]
    /\ pos = [r \in Runs |-> 0]
    /\ fd = [r \in Runs |-> "closed"]
    /\ retval = [r \in Runs |-> "none"]
    /\ lastOk = NoRun
    /\ HashIdle
    /\ DocIdle

NextBoth ==
    \/ \E f \in CrashFiles, c \in {FooV1, BarV1} : EnvWriteConfig(f, c)
    \/ \E r \in Runs : UpdateIndexBuild(r)
    \/ \E r \in Runs : OpenNewIndex(r)
    \/ \E r \in Runs : WriteChunk(r)
    \/ \E r \in Runs : ReplaceIndex(r)
    \/ \E r \in Runs : Return(r)

\* Concurrent runs of update_index over valid configs.
SpecBoth == InitBoth /\ [][NextBoth]_vars

InitHash == HashInit /\ RunInit /\ DocIdle

\* compute_repo_hash alone.
SpecHash == InitHash /\ [][HashApply]_vars

InitDoc == DocInit /\ RunInit /\ HashIdle

\* validate_file and extract_app_name alone.
SpecDoc == InitDoc /\ [][DocNext]_vars

RunTypeOK ==
    /\ \A r \in Runs : pc[r] \in {"off", "idle", "built", "writing", "written", "returned"}
    /\ \A r \in Runs : retval[r] \in {"none", "True", "False", "raise"}
    /\ \A r \in Runs : (pc[r] = "returned") <=> (retval[r] # "none")


(***************************************************************************)
(* Properties of update_index and build_index.                             *)
(***************************************************************************)

\* A run is past build_index.
PastBuild(r) == pc[r] \in {"built", "writing", "written", "returned"}

\* C1: build_index returns None whenever at least one *.json file of the
\* directory fails validation (validate_file gives False for it), whatever
\* the other files are and wherever the file falls in the order: a run that
\* is past build_index over such a directory has returned False.
C1_FailedValidationGivesNone ==
    \A r \in Runs :
        (/\ PastBuild(r)
         /\ \E f \in Glob(configs) :
               ValidateFile(NewValidator, f, configs.files[f], FALSE).ret = "False")
            => (pc[r] = "returned" /\ retval[r] = "False")

\* C2: a call of update_index that returns False (build_index gave None)
\* leaves index.json exactly as it was before the call, with its content or
\* still missing, after any earlier runs.
C2_FailureKeepsIndex ==
    [][\A r \in Runs :
          (pc[r] = "idle" /\ pc'[r] = "returned" /\ retval'[r] = "False")
              => fs'[IndexPath] = fs[IndexPath]]_vars

C2_Witness ==
    \E r \in Runs :
        /\ pc[r] = "returned" /\ retval[r] = "False"
        /\ lastOk.any /\ lastOk.dir # configs
        /\ fs[IndexPath] = FileOf(lastOk.index)

\* C3: after update_index has returned False there is no new_index.json in
\* the repository root, whatever was there before the call, the file an
\* interrupted run left included.
C3_NoTempAfterFailure ==
    \A r \in Runs :
        (pc[r] = "returned" /\ retval[r] = "False") => ~fs[NewIndexPath].exists

\* C4: at every step of a run (build, each chunk written, rename), and after
\* a run was killed before the rename, a reader of index.json never finds a
\* partly written file: index.json is whole and is what the last run that
\* renamed wrote (the previous index until the rename, the new one from
\* it), or is missing when no run has renamed yet.
C4_ReaderSeesWholeIndex ==
    /\ ReadIndex(fs[IndexPath]) # "partial"
    /\ fs[IndexPath] = IF lastOk.any THEN FileOf(lastOk.index) ELSE NoFileOnDisk

C4_Witness ==
    \E r \in Runs :
        /\ pc[r] = "idle"
        /\ ReadIndex(fs[NewIndexPath]) = "partial"
        /\ Len(fs[NewIndexPath].data) >= 2
        /\ ReadIndex(fs[IndexPath]) = "complete"
        /\ fs[IndexPath] = FileOf(lastOk.index)

\* Run r renames its file over index.json and returns True.
Succeeds(r) == pc[r] = "written" /\ pc'[r] = "returned" /\ retval'[r] = "True"

\* C7: a successful run over the directory the successful run before it
\* indexed, unchanged, writes the repo_hash that index.json held.
C7_UnchangedDirSameRepoHash ==
    [][\A r \in Runs :
          (Succeeds(r) /\ lastOk.any /\ lastOk.dir = configs)
              => RepoHashIn(fs'[IndexPath]) = RepoHashIn(fs[IndexPath])]_vars

C7_Witness ==
    \E r \in Runs :
        /\ pc[r] = "returned" /\ retval[r] = "True"
        /\ lastOk.changed = 0
        /\ RepoHashIn(fs[IndexPath]) # JNull

\* C8: a successful run over a directory that differs in exactly one file
\* (added, removed or with other content) from the one the successful run
\* before it indexed writes a repo_hash other than the one index.json held.
C8_OneFileChangedOtherRepoHash ==
    [][\A r \in Runs :
          (/\ Succeeds(r)
           /\ lastOk.any
           /\ Cardinality(ChangedFiles(lastOk.dir, configs)) = 1)
              => RepoHashIn(fs'[IndexPath]) # RepoHashIn(fs[IndexPath])]_vars

C8_Witness ==
    \E r \in Runs :
        /\ pc[r] = "returned" /\ retval[r] = "True"
        /\ lastOk.changed = 1
        /\ Cardinality(Glob(configs)) = 2

(***************************************************************************)
(* Properties of extract_app_name and validate_file.                       *)
(***************************************************************************)

\* C9: for a file holding a JSON object, extract_app_name returns
\* applications[0].name when applications is a non-empty list and that name
\* is a non-empty string; otherwise the top-level name when it is non-empty;
\* otherwise the filename stem.
C9_ThreeStepPriority ==
    (nameOut.kind # "none" /\ docContent.text = "json" /\ docContent.doc.k = "dict")
        => LET config == docContent.doc
               apps == Get(config, "applications")
               first == IF apps.k = "list" /\ Len(apps.v) > 0 /\ apps.v[1].k = "dict"
                        THEN Get(apps.v[1], "name") ELSE JNull
               top == Get(config, "name")
           IN nameOut = IF first.k = "str" /\ first.v # <<>> THEN Value(first)
                        ELSE IF Truthy(top) THEN Value(top)
                        ELSE Value(JStr(Stem(docName)))

\* C10: for every entry i of applications and every required field f:
\* when f is missing from the entry, or null, or the empty string,
\* validate_file returns False and the errors hold one whose field path is
\* applications[i].f.
C10_RequiredFieldReported ==
    (/\ valOut.ret # "none"
     /\ docContent.text = "json"
     /\ docContent.doc.k = "dict"
     /\ Get(docContent.doc, "applications").k = "list")
        => LET apps == Get(docContent.doc, "applications").v IN
           \A i \in 1..Len(apps) : \A n \in 1..Len(REQUIRED_APP_FIELDS) :
              LET f == REQUIRED_APP_FIELDS[n] IN
              (/\ apps[i].k = "dict"
               /\ Get(apps[i], f) \in {JNull, JStr(<<>>)})
                  => /\ valOut.ret = "False"
                     /\ \E e \in 1..Len(valOut.v.errors) :
                           valOut.v.errors[e].field = FieldPath(i - 1, f)


(***************************************************************************)
(* Properties of the field validators, on the file validate_file was       *)
(* called on.                                                              *)
(***************************************************************************)

\* validate_file was called on a file holding JSON.
Validated == valOut.ret # "none" /\ docContent.text = "json"

\* The entries of applications, when the document is an object holding a
\* list of them.
Apps ==
    IF docContent.doc.k = "dict" /\ Get(docContent.doc, "applications").k = "list"
    THEN Get(docContent.doc, "applications").v
    ELSE <<>>

\* The errors and the warnings appended during the call.
NewErrors == SubSeq(valOut.v.errors, Len(valIn.errors) + 1, Len(valOut.v.errors))
NewWarnings == SubSeq(valOut.v.warnings, Len(valIn.warnings) + 1, Len(valOut.v.warnings))

\* An error appended during the call has the field path applications[i-1].f.
ErrorAt(i, f) ==
    \E e \in 1..Len(NewErrors) : NewErrors[e].field = FieldPath(i - 1, f)

\* Entry i of applications is an object with key f.
Holds(i, f) == Apps[i].k = "dict" /\ f \in DOMAIN Apps[i].v

\* C11: for every entry with a url key, whatever value it holds: a string
\* starting with http:// or https:// gets no error for applications[i].url;
\* any other value gets one, and validate_file returns False.
C11_UrlChecked ==
    Validated =>
        \A i \in 1..Len(Apps) :
            Holds(i, "url") =>
                LET url == Apps[i].v["url"] IN
                IF IsStr(url) /\ (StartsWith(url.v, S_http) \/ StartsWith(url.v, S_https))
                THEN ~ErrorAt(i, "url")
                ELSE ErrorAt(i, "url") /\ valOut.ret = "False"


\* C12: for every entry with a pattern key, whatever value it holds: unless
\* the value is a string that compiles as a regular expression, an error
\* for applications[i].pattern is appended and validate_file returns False.
C12_PatternChecked ==
    Validated =>
        \A i \in 1..Len(Apps) :
            Holds(i, "pattern") =>
                LET pattern == Apps[i].v["pattern"] IN
                ~(IsStr(pattern) /\ (pattern.v = <<>> \/ ~ReCompileFails(pattern.v)))
                    => ErrorAt(i, "pattern") /\ valOut.ret = "False"


\* An error of _validate_paths appended during the call for applications[i-1].f:
\* one saying the path must be relative, or any of its errors.
RelativeErrorAt(i, f) ==
    \E e \in 1..Len(NewErrors) :
        /\ NewErrors[e].field = FieldPath(i - 1, f)
        /\ NewErrors[e].message \in { "Path must be relative, not absolute",
                                      "Path must be relative, not use ~" }

PathErrorAt(i, f) ==
    \E e \in 1..Len(NewErrors) :
        /\ NewErrors[e].field = FieldPath(i - 1, f)
        /\ NewErrors[e].message \in { "Path must be relative, not absolute",
                                      "Path must be relative, not use ~",
                                      "Must be a string" }

\* A string starting with "/", with "~" or with a letter and a colon.
NotRelative(s) ==
    \/ StartsWith(s, <<"/">>)
    \/ StartsWith(s, <<"~">>)
    \/ Len(s) >= 2 /\ s[1] \in Letters /\ s[2] = ":"

\* C13: for every entry and each of download_dir and symlink_path: a string
\* starting with "/", "~" or a drive letter gets a "must be relative" error
\* for that field and validate_file returns False; a value that is neither
\* null nor a string gets an error for that field and validate_file returns
\* False; any other string gets no path error.
C13_PathsChecked ==
    Validated =>
        \A i \in 1..Len(Apps) : \A n \in 1..Len(PATH_FIELDS) :
            LET f == PATH_FIELDS[n] IN
            Holds(i, f) =>
                LET value == Apps[i].v[f] IN
                CASE IsStr(value) /\ NotRelative(value.v) ->
                        RelativeErrorAt(i, f) /\ valOut.ret = "False"
                  [] IsStr(value) /\ ~NotRelative(value.v) -> ~PathErrorAt(i, f)
                  [] value = JNull -> TRUE
                  [] OTHER -> ErrorAt(i, f) /\ valOut.ret = "False"


\* C14: for every entry with a source_type key: a value that is one of the
\* strings of VALID_SOURCE_TYPES gets no error for applications[i].source_type;
\* every other value gets one and validate_file returns False.
C14_SourceTypeChecked ==
    Validated =>
        \A i \in 1..Len(Apps) :
            Holds(i, "source_type") =>
                LET source_type == Apps[i].v["source_type"] IN
                IF IsStr(source_type) /\ source_type.v \in VALID_SOURCE_TYPES
                THEN ~ErrorAt(i, "source_type")
                ELSE ErrorAt(i, "source_type") /\ valOut.ret = "False"


\* Errors appended during the call for the checksum of applications[i-1]:
\* for the value itself, for its enabled key, for its algorithm key.
ChecksumErrorAt(i, sub) ==
    \E e \in 1..Len(NewErrors) :
        NewErrors[e].field = <<"applications", i - 1, "checksum">> \o sub

\* C15: for every entry with a checksum key: a value that is neither null nor
\* an object gets an error for applications[i].checksum; in an object, an
\* enabled key that is no boolean gets an error for checksum.enabled and an
\* algorithm key that is not one of valid_algorithms gets an error for
\* checksum.algorithm; in each case validate_file returns False.
C15_ChecksumChecked ==
    Validated =>
        \A i \in 1..Len(Apps) :
            Holds(i, "checksum") =>
                LET checksum == Apps[i].v["checksum"] IN
                /\ checksum.k \notin {"dict", "null"}
                     => ChecksumErrorAt(i, <<>>) /\ valOut.ret = "False"
                /\ checksum.k = "dict" /\ "enabled" \in DOMAIN checksum.v
                     /\ checksum.v["enabled"].k # "bool"
                     => ChecksumErrorAt(i, <<"enabled">>) /\ valOut.ret = "False"
                /\ checksum.k = "dict" /\ "algorithm" \in DOMAIN checksum.v
                     /\ ~(IsStr(checksum.v["algorithm"])
                          /\ checksum.v["algorithm"].v \in valid_algorithms)
                     => ChecksumErrorAt(i, <<"algorithm">>) /\ valOut.ret = "False"


(***************************************************************************)
(* Properties of the index build_index returns.                            *)
(***************************************************************************)

\* The two metadata keys of an index.
MetaKeys == {JStr(S_repo_hash), JStr(S_generated_at)}

\* C16: the index build_index returned to a run has this shape: repo_hash
\* maps to the string compute_repo_hash gives for the hashes of the files of
\* the directory, generated_at maps to a timestamp string, every other key
\* is the resolved name of a file and maps to ["configs/<filename>", hash of
\* that file], and the number of applications is the number of keys minus two.
C16_IndexShape ==
    \A r \in Runs :
        pc[r] \in {"built", "writing", "written"} =>
            LET index == idx[r]
                paths == Sorted(AnyOrder(Glob(configs)))
                hashes == [i \in 1..Len(paths) |-> ComputeSha256(configs.files[paths[i]])]
                names == { ExtractAppName(f, configs.files[f]).value : f \in Glob(configs) }
            IN /\ MetaKeys \subseteq DOMAIN index
               /\ index[JStr(S_repo_hash)] = JStr(ComputeRepoHash(hashes))
               /\ \E t \in Times : index[JStr(S_generated_at)] = JStr([isoformat |-> t])
               /\ \A key \in DOMAIN index \ MetaKeys :
                     \E f \in Glob(configs) :
                        /\ key = ExtractAppName(f, configs.files[f]).value
                        /\ index[key] = JList(<<JStr(S_configs \o f),
                                                JStr(ComputeSha256(configs.files[f]))>>)
               /\ Cardinality(names) = Cardinality(DOMAIN index) - 2


(***************************************************************************)
(* Properties of what validate_file returns.                               *)
(***************************************************************************)

\* C17: a call of validate_file returns True exactly when it appended no
\* error, whatever errors the validator held before the call and whatever
\* warnings the call appended.
C17_TrueIffNoNewError ==
    valOut.ret # "none" => (valOut.ret = "True" <=> NewErrors = <<>>)


\* C18: for a readable file of well-formed JSON, validate_file returns True
\* or False and does not raise.
C18_NeverRaises ==
    Validated => valOut.ret \in {"True", "False"}


\* The errors appended during the call by the schema check, and by the rules.
IsSchemaError(e) == e.field = <<"schema">>
SchemaErrors == SelectSeq(NewErrors, IsSchemaError)
IsRuleError(e) == ~IsSchemaError(e)
RuleErrors == SelectSeq(NewErrors, IsRuleError)

\* What the same call appends when no schema is supplied.
ErrorsWithoutSchema ==
    LET out == ValidateFile(valIn, docName, docContent, FALSE)
    IN SubSeq(out.v.errors, Len(valIn.errors) + 1, Len(out.v.errors))

\* C19: with a schema supplied, a document that violates n rules of the
\* schema gets n schema errors, and the rule checks append after them the
\* errors they append without a schema.
C19_OneErrorPerViolation ==
    (Validated /\ docSchema) =>
        /\ Len(SchemaErrors) = docContent.viol
        /\ RuleErrors = ErrorsWithoutSchema


\* The JSON kinds the type table declares for an optional field.
DeclaredKinds ==
    [ version_pattern |-> {"str", "null"}, basename |-> {"str", "null"},
      symlink_path |-> {"str", "null"},
      enabled |-> {"bool"}, prerelease |-> {"bool"}, rotation_enabled |-> {"bool"},
      retain_count |-> {"int"}, source_type |-> {"str"} ]

\* An "Expected type" error appended during the call for applications[i-1].f.
TypeErrorAt(i, f) ==
    \E e \in 1..Len(NewErrors) :
        /\ NewErrors[e].field = FieldPath(i - 1, f)
        /\ NewErrors[e].message = "Expected type"

\* C20: for every entry and every optional field of the type table that is
\* present: a value of a kind other than the declared ones gets an error for
\* that field and validate_file returns False; a value of a declared kind
\* gets no type-mismatch error.  A boolean is no integer.
C20_OptionalTypesChecked ==
    Validated =>
        \A i \in 1..Len(Apps) : \A f \in DOMAIN DeclaredKinds :
            Holds(i, f) =>
                IF Apps[i].v[f].k \in DeclaredKinds[f]
                THEN ~TypeErrorAt(i, f)
                ELSE ErrorAt(i, f) /\ valOut.ret = "False"


(***************************************************************************)
(* Properties of warnings, of names and of concurrent runs.                *)
(***************************************************************************)

\* C21: a file for which validate_file recorded warnings and no error is
\* valid (validate_file returns True) and is indexed: extract_app_name gives
\* build_index a name to index it under.
C21_WarningsDoNotBlock ==
    (/\ valOut.ret # "none"
     /\ nameOut.kind # "none"
     /\ NewErrors = <<>>
     /\ NewWarnings # <<>>)
        => /\ valOut.ret = "True"
           /\ nameOut.kind = "value"
           /\ IsStr(nameOut.value)


\* The name a file of the configs directory resolves to.
ResolvedName(f) == ExtractAppName(f, configs.files[f]).value

\* Every file of the configs directory is valid, with or without a schema.
AllFilesValid ==
    \A f \in Glob(configs) : \A schema \in BOOLEAN :
        ValidateFile(NewValidator, f, configs.files[f], schema).ret = "True"

\* The files resolving to the name f resolves to, and the last of them in
\* filename order.
SameName(f) == { g \in Glob(configs) : ResolvedName(g) = ResolvedName(f) }
LastOf(S) == CHOOSE g \in S : \A h \in S : h = g \/ StrLess(h, g)

\* The entry build_index makes for a file.
EntryOf(f) ==
    JList(<<JStr(S_configs \o f), JStr(ComputeSha256(configs.files[f]))>>)

\* C22: over a directory of valid files, build_index returns an index, and
\* for every file the one entry under the name it resolves to is that of the
\* last file, in filename order, resolving to that name.
C22_LastFileWins ==
    [][\A r \in Runs :
          (/\ pc[r] = "idle" /\ pc'[r] # "idle"
           /\ Glob(configs) # {}
           /\ AllFilesValid)
              => /\ pc'[r] = "built"
                 /\ \A f \in Glob(configs) :
                       /\ ResolvedName(f) \in DOMAIN idx'[r]
                       /\ idx'[r][ResolvedName(f)] = EntryOf(LastOf(SameName(f)))]_vars

\* Two files of different content resolving to one name were indexed.
C22_Witness ==
    \E r \in Runs :
        /\ pc[r] = "built"
        /\ AllFilesValid
        /\ \E f \in Glob(configs) :
              /\ Cardinality(SameName(f)) = 2
              /\ \E g \in SameName(f) : configs.files[g] # configs.files[f]


\* C23: a file that passed validate_file is indexed under applications[0].name
\* of its content, a non-empty string: extract_app_name returns that value,
\* not the top-level name, the filename stem or None.
C23_IndexedUnderFirstName ==
    (valOut.ret = "True" /\ nameOut.kind # "none") =>
        /\ Len(Apps) > 0
        /\ Holds(1, "name")
        /\ IsStr(Apps[1].v["name"])
        /\ Apps[1].v["name"].v # <<>>
        /\ nameOut = Value(Apps[1].v["name"])

\* A validated file with a top-level name other than its first entry's.
C23_Witness ==
    /\ valOut.ret = "True"
    /\ nameOut.kind = "value"
    /\ Truthy(Get(docContent.doc, "name"))
    /\ Get(docContent.doc, "name") # nameOut.value


\* The content hashes in the application entries of an index, in any order.
EntryHashes(index) ==
    LET keys == AnyOrder(DOMAIN index \ MetaKeys)
    IN [i \in 1..Len(keys) |-> index[keys[i]].v[2].v]

\* C24: in the index build_index returned to a run, repo_hash is
\* compute_repo_hash of exactly the content hashes of the index's application
\* entries.
C24_RepoHashOfEntries ==
    \A r \in Runs :
        pc[r] \in {"built", "writing", "written"} =>
            idx[r][JStr(S_repo_hash)] = JStr(ComputeRepoHash(EntryHashes(idx[r])))


\* C25: with two runs of update_index at once on one repository root,
\* index.json never holds a partially written index, and no run ends with an
\* exception.
C25_ConcurrentRunsSafe ==
    /\ ReadIndex(fs[IndexPath]) # "partial"
    /\ \A r \in Runs : retval[r] # "raise"

====
